---- MODULE Spec2Model ----
(***************************************************************************)
(* A model of app.py (AnkifyAI): the usage ledger kept in a JSON file      *)
(* (load_usage / save_usage / usage_reset), and the /build-apkg handler    *)
(* with its gates and its two generation pipelines.                        *)
(*                                                                         *)
(* JSON values are tagged tuples, so that Python's int() and == can be     *)
(* modelled by what they do on each kind of value:                         *)
(*   <<"int", n>>   an integer                                             *)
(*   <<"flt", h>>   a float, the value h/2 (so <<"flt", 4>> is 2.0)        *)
(*   <<"str", s>>   a string                                               *)
(*   <<"bool", b>>  true / false                                           *)
(*   <<"null">>     null                                                   *)
(* A parsed JSON document is <<"dict", f>> (f a function from keys to      *)
(* values) or <<"list">>.  A file is a sequence of tokens, <<"{">>, then   *)
(* <<"kv", key, value>> per member, then <<"}">>; a file that stops before *)
(* the closing token does not parse.                                       *)
(***************************************************************************)
EXTENDS Integers, Sequences, FiniteSets, TLC

\* ------------------------------------------------------------------ bounds
MaxClock == 2        \* the clock (one tick = one calendar month) stops here
MaxUsed == 3         \* API-level debits stop once cards_used would pass this
MaxResp == 2         \* items in one completion response (the long ones apart)
MaxWords == 6        \* SpecPure: words of a text given to chunk_by_words
MaxTarget == 4       \* SpecPure: target_words given to chunk_by_words

\* ------------------------------------------------------- program constants
DEFAULT_CAP_CARDS_PER_MONTH == 50000
USAGE_SCHEMA_VERSION == 1

VARIABLES
  clock,      \* wall clock: int(time.time()), and the month of utcnow()
  disk,       \* inode -> file content (a token sequence), or Free
  link,       \* the inode USAGE_PATH names, 0 when the file does not exist
  led,        \* SpecLedger: the last ledger call, its argument and its result
  procs,      \* SpecAtomic: thread id -> its place in load_usage / save_usage
  committed,  \* SpecAtomic: every text USAGE_PATH has held as a whole file
  OPENAI_API_KEY,  \* whether the completion credential is configured
  runs,       \* run id -> the locals of that /build-apkg request
  calc        \* SpecPure: the last call of a pure helper, arguments and result

vars == <<clock, disk, link, led, procs, committed, OPENAI_API_KEY, runs, calc>>

\* ------------------------------------------------------------ JSON values
IntV(n) == <<"int", n>>
FltV(h) == <<"flt", h>>
StrV(s) == <<"str", s>>
BoolV(b) == <<"bool", b>>
NullV == <<"null">>

Max(a, b) == IF a >= b THEN a ELSE b
Min(a, b) == IF a <= b THEN a ELSE b

\* The strings int() accepts, with their values; int() of any other string raises.
NumericStrings == {"0", "2"}
StrToInt(s) == IF s = "0" THEN 0 ELSE 2

\* Python's int(v): <<TRUE, n>>, or <<FALSE, 0>> when it raises.
PyInt(v) ==
  CASE v[1] = "int" -> <<TRUE, v[2]>>
    [] v[1] = "flt" -> <<TRUE, IF v[2] >= 0 THEN v[2] \div 2 ELSE -((-v[2]) \div 2)>>
    [] v[1] = "bool" -> <<TRUE, IF v[2] THEN 1 ELSE 0>>
    [] v[1] = "str" -> IF v[2] \in NumericStrings THEN <<TRUE, StrToInt(v[2])>>
                       ELSE <<FALSE, 0>>
    [] OTHER -> <<FALSE, 0>>

IsNumber(v) == v[1] \in {"int", "flt", "bool"}
\* A number's value in halves.
Halves(v) ==
  CASE v[1] = "int" -> 2 * v[2]
    [] v[1] = "flt" -> v[2]
    [] OTHER -> IF v[2] THEN 2 ELSE 0

\* Python's ==: numbers compare by value whatever their type (2 == 2.0, 1 == True).
PyEq(a, b) ==
  IF IsNumber(a) /\ IsNumber(b) THEN Halves(a) = Halves(b)
  ELSE IF a[1] # b[1] THEN FALSE
  ELSE IF a[1] = "str" THEN a[2] = b[2]
  ELSE TRUE

\* Mutant of DocEq: only the keys are compared.
DocEqKeysOnly(a, b) ==
  /\ a[1] = b[1]
  /\ a[1] = "dict" => DOMAIN a[2] = DOMAIN b[2]

\* Equality of two parsed documents, as raw != data decides it.
DocEq(a, b) ==
  /\ a[1] = b[1]
  /\ a[1] = "dict" =>
       /\ DOMAIN a[2] = DOMAIN b[2]
       /\ \A k \in DOMAIN a[2] : PyEq(a[2][k], b[2][k])

\* ------------------------------------------------------------------ clock
\* datetime.utcnow().strftime("%Y-%m"): Months[1] is the month before the
\* model's first month.
Months == <<"2026-10", "2026-11", "2026-12", "2027-01", "2027-02", "2027-03">>
MonthStr(c) == Months[c + 1]

\* ----------------------------------------------------------- usage record
UsageKeys == <<"version", "month", "cards_used", "cap">>
UsageKeySet == {"version", "month", "cards_used", "cap"}

usage_defaults(now) ==
  [version |-> IntV(USAGE_SCHEMA_VERSION),
   month |-> StrV(MonthStr(now)),
   cards_used |-> IntV(0),
   cap |-> IntV(DEFAULT_CAP_CARDS_PER_MONTH)]

\* int(x) with the except branch's fallback.
IntOr(v, fallback) == IF PyInt(v)[1] THEN PyInt(v)[2] ELSE fallback

\* Mutant of MonthChanged: the stored month is never compared.
MonthChangedNever(out, now) == FALSE

\* The month test of the rollover.
MonthChanged(out, now) == ~PyEq(out["month"], StrV(MonthStr(now)))

\* Mutant of PatchCap: without out["cap"] = max(0, out["cap"]).
PatchCapUnclamped(v) == IntOr(v, DEFAULT_CAP_CARDS_PER_MONTH)

\* cap after the numeric sanity block.
PatchCap(v) == Max(0, IntOr(v, DEFAULT_CAP_CARDS_PER_MONTH))

\* cards_used after the rollover and the numeric sanity block.
PatchCardsUsed(out, now) ==
  Max(0, IntOr(IF MonthChanged(out, now) THEN IntV(0) ELSE out["cards_used"], 0))

validate_and_patch_usage(data, now) ==
  LET base == usage_defaults(now) IN
  IF data[1] # "dict" THEN base
  ELSE
    LET out == [k \in UsageKeySet |->
                  IF k \in DOMAIN data[2] THEN data[2][k] ELSE base[k]]
    IN [version |-> IntV(USAGE_SCHEMA_VERSION),
        month |-> StrV(MonthStr(now)),
        cards_used |-> IntV(PatchCardsUsed(out, now)),
        cap |-> IntV(PatchCap(out["cap"]))]

\* ------------------------------------------------------------------ files
Free == <<<<"free">>>>
NoInode == 0

\* json.dump of a dict: its members in insertion order.
RECURSIVE DumpMembers(_, _, _)
DumpMembers(d, keys, i) ==
  IF i > Len(keys) THEN <<>>
  ELSE (IF keys[i] \in DOMAIN d THEN <<<<"kv", keys[i], d[keys[i]]>>>> ELSE <<>>)
       \o DumpMembers(d, keys, i + 1)

json_dump(d) == <<<<"{">>>> \o DumpMembers(d, UsageKeys, 1) \o <<<<"}">>>>

\* The members of a token sequence as a function, a later member overriding.
RECURSIVE Members(_, _)
Members(toks, i) ==
  IF i < 2 THEN <<>>
  ELSE LET rest == Members(toks, i - 1)
           t == toks[i]
       IN [k \in (DOMAIN rest) \cup {t[2]} |-> IF k = t[2] THEN t[3] ELSE rest[k]]

\* json.load: <<TRUE, document>>, or <<FALSE, ...>> when it raises.
json_load(toks) ==
  IF /\ Len(toks) >= 2
     /\ toks[1] = <<"{">>
     /\ toks[Len(toks)] = <<"}">>
     /\ \A i \in 2..(Len(toks) - 1) : toks[i][1] = "kv"
  THEN <<TRUE, <<"dict", Members(toks, Len(toks) - 1)>>>>
  ELSE IF toks = <<<<"[">>, <<"]">>>> THEN <<TRUE, <<"list">>>>
  ELSE <<FALSE, <<"list">>>>

\* The except branch of load_usage: raw = {}.
ReadRaw(toks) ==
  IF json_load(toks)[1] THEN json_load(toks)[2] ELSE <<"dict", <<>>>>

AsDoc(d) == <<"dict", d>>

\* _save_usage_atomic as one step: the temporary file is written whole and
\* replaces USAGE_PATH.  No handle stays open between two steps of the
\* specifications that use it, so the inode's number is not observable and
\* the new file takes inode 1.
save_usage_atomic(data, dsk) ==
  [disk |-> [dsk EXCEPT ![1] = json_dump(data)], link |-> 1]

\* load_usage as one step: the record returned, the file system after it,
\* what was read, and whether the file was written.
load_usage(dsk, lnk, now) ==
  IF lnk = NoInode THEN
    LET data == usage_defaults(now)
        fs == save_usage_atomic(data, dsk)
    IN [ret |-> data, disk |-> fs.disk, link |-> fs.link,
        raw |-> <<"none">>, wrote |-> TRUE]
  ELSE
    LET raw == ReadRaw(dsk[lnk])
        data == validate_and_patch_usage(raw, now)
        differs == ~DocEq(raw, AsDoc(data))
        fs == IF differs THEN save_usage_atomic(data, dsk)
              ELSE [disk |-> dsk, link |-> lnk]
    IN [ret |-> data, disk |-> fs.disk, link |-> fs.link,
        raw |-> raw, wrote |-> differs]

save_usage(data, dsk, now) ==
  save_usage_atomic(validate_and_patch_usage(AsDoc(data), now), dsk)

\* usage_reset: the body's cap replaces the default when it is an int >= 0
\* (isinstance(True, int) holds in Python, so a boolean passes too).
ResetData(cap, now) ==
  IF cap[1] \in {"int", "bool"} /\ Halves(cap) >= 0
  THEN [usage_defaults(now) EXCEPT !["cap"] = cap]
  ELSE usage_defaults(now)

usage_reset(cap, dsk, now) == save_usage(ResetData(cap, now), dsk, now)

\* Mutant of AddCards: the counter is assigned, not incremented.
AddCardsAssign(usage, n) == [usage EXCEPT !["cards_used"] = IntV(n)]

\* usage["cards_used"] += n, on the record a handler holds in memory.
AddCards(usage, n) ==
  [usage EXCEPT !["cards_used"] = IntV(usage["cards_used"][2] + n)]

\* The record persisted at USAGE_PATH, as a reader would parse it.
Persisted == ReadRaw(disk[link])
FileText == IF link = NoInode THEN <<>> ELSE disk[link]

\* ---------------------------------------------------- stored files (Init)
Absent == <<"absent">>
StoredCounters ==
  {Absent, IntV(-1), IntV(0), IntV(2), FltV(4), FltV(3), StrV("2"), StrV("x"),
   NullV, BoolV(TRUE)}
StoredVersions == {Absent, IntV(1), IntV(2), FltV(2)}
StoredMonths == {Absent, StrV(MonthStr(0)), StrV(MonthStr(1)), IntV(7)}
StoredExtras == {Absent, IntV(1)}
StoredKeys == <<"version", "month", "cards_used", "cap", "extra">>

\* A file holding an object: any subset of the members, each with any value.
StoredObjectFiles ==
  {<<<<"{">>>> \o DumpMembers([k \in {x \in DOMAIN f : f[x] # Absent} |-> f[k]],
                             StoredKeys, 1) \o <<<<"}">>>> :
     f \in [version : StoredVersions, month : StoredMonths,
            cards_used : StoredCounters, cap : StoredCounters,
            extra : StoredExtras]}

\* An empty file, a file cut short, and a file holding a JSON list.
StoredBrokenFiles ==
  {<<>>, <<<<"{">>, <<"kv", "cap", IntV(2)>>>>, <<<<"[">>, <<"]">>>>}

Inodes == 1..4
DiskWith(text) == [i \in Inodes |-> IF i = 1 THEN text ELSE Free]
EmptyDisk == [i \in Inodes |-> Free]

\* A thread of SpecAtomic before its first call.
Procs == {1, 2}
ProcInit ==
  [pc |-> "idle", op |-> "", fd |-> NoInode, tmp |-> NoInode,
   data |-> usage_defaults(0), text |-> <<>>, has_read |-> FALSE]

\* The record of the last ledger call, before any.
LedInit ==
  [op |-> "init", prev |-> "init", before |-> <<>>, existed |-> FALSE,
   raw |-> <<"none">>, ret |-> usage_defaults(0), wrote |-> FALSE,
   arg |-> Absent, n |-> 0, at |-> 0,
   hasHeld |-> FALSE, held |-> usage_defaults(0),
   accepted |-> 0, debits |-> 0]

\* The record of the last call of a pure helper, before any.
CalcInit == [fn |-> "none", args |-> <<>>, out |-> <<>>]

\* ------------------------------------------------------- text and yield
\* A text is modelled by its number of words after clean_text(); a chunk by
\* <<index of its first word, number of words>>.  A yield level is given in
\* tenths (5 is 0.5).

\* Python's round() of num/den (num >= 0, den > 0): ties go to the even integer.
RoundHalfEven(num, den) ==
  LET q == num \div den
      r2 == 2 * (num % den)
  IN IF r2 < den THEN q
     ELSE IF r2 > den THEN q + 1
     ELSE IF q % 2 = 0 THEN q ELSE q + 1

\* Mutant of ChunkFrom: the window advances by target_words, without overlap.
RECURSIVE ChunkFromDisjoint(_, _, _, _)
ChunkFromDisjoint(i, n, target_words, overlap) ==
  IF i >= n THEN <<>>
  ELSE <<<<i, Min(target_words, n - i)>>>>
       \o ChunkFromDisjoint(i + target_words, n, target_words, overlap)

RECURSIVE ChunkFrom(_, _, _, _)
ChunkFrom(i, n, target_words, overlap) ==
  IF i >= n THEN <<>>
  ELSE <<<<i, Min(target_words, n - i)>>>>
       \o ChunkFrom(i + Max(1, target_words - overlap), n, target_words, overlap)

chunk_by_words(words, target_words, overlap) ==
  ChunkFrom(0, words, target_words, overlap)

\* Ten times the density: 6.0 + (1.0 - y) * 12.0 with y clamped to [0, 1].
cards_per_1000_words(yield_level) ==
  60 + (10 - Max(0, Min(10, yield_level))) * 12

\* Mutant of estimate_total_cards: the caller's floor is left out.
estimate_total_cards_auto(words, approx_cards, yield_level) ==
  RoundHalfEven(words * cards_per_1000_words(yield_level), 10000)

estimate_total_cards(words, approx_cards, yield_level) ==
  Max(approx_cards, RoundHalfEven(words * cards_per_1000_words(yield_level), 10000))

\* Mutant of choose_call_size: the chunk's remainder is not looked at.
choose_call_size_overall(yield_level, remaining_overall, remaining_for_chunk) ==
  LET base0 == RoundHalfEven(120 - 6 * Max(0, Min(10, yield_level)), 10)
      base1 == Max(3, Min(16, base0))
      base == IF remaining_overall > 100 THEN Min(20, base1 + 4) ELSE base1
  IN Max(1, Min(base, remaining_overall))

choose_call_size(yield_level, remaining_overall, remaining_for_chunk) ==
  LET base0 == RoundHalfEven(120 - 6 * Max(0, Min(10, yield_level)), 10)
      base1 == Max(3, Min(16, base0))
      base == IF remaining_overall > 100 THEN Min(20, base1 + 4) ELSE base1
  IN Max(1, Min(base, Min(remaining_overall, remaining_for_chunk)))

\* ------------------------------------------------------------------ modes
BASIC == "Basic Recall (Q/A)"
CLOZE == "Fill in the Blank"
MECHANISM == "Mechanism (Why/How)"
SCENARIO == "Scenario"
CANONICAL_MODES == <<BASIC, CLOZE, MECHANISM, SCENARIO>>

\* MODE_ALIASES; a mode string is taken already stripped and lower-cased.
ModeAliases(canon) ==
  CASE canon = BASIC -> {"basic recall (q/a)", "recall", "basic", "qa", "q/a"}
    [] canon = CLOZE -> {"fill in the blank", "fill-in-the-blank", "cloze"}
    [] canon = MECHANISM -> {"mechanism (why/how)", "mechanism", "why", "how", "why/how"}
    [] OTHER -> {"scenario", "case", "vignette"}

\* normalize_modes([m])[0]
NormalizeMode(m) ==
  IF \E i \in 1..Len(CANONICAL_MODES) : m \in ModeAliases(CANONICAL_MODES[i])
  THEN CANONICAL_MODES[CHOOSE i \in 1..Len(CANONICAL_MODES) :
                         /\ m \in ModeAliases(CANONICAL_MODES[i])
                         /\ \A j \in 1..(i - 1) : m \notin ModeAliases(CANONICAL_MODES[j])]
  ELSE BASIC

\* ------------------------------------------------- completion responses
\* An item of a response is <<"card", front, back, mode>> (front and back
\* already stripped) or <<"junk">> (not an object).
ItemA == <<"card", "Q1", "A1", "cloze">>
ItemB == <<"card", "Q2", "A2", "essay">>
ItemNoBack == <<"card", "Q3", "", "basic">>
ItemJunk == <<"junk">>
RawItems == {ItemA, ItemB, ItemNoBack, ItemJunk}

RECURSIVE SeqsUpTo(_, _)
SeqsUpTo(S, n) ==
  IF n = 0 THEN {<<>>}
  ELSE SeqsUpTo(S, n - 1) \cup {Append(q, x) : q \in SeqsUpTo(S, n - 1), x \in S}

Repeat(x, n) == [k \in 1..n |-> x]

\* What the service may answer to a card request: any short list, or a list
\* longer than any request of the model.
FACT_BATCH == 50
CardResponses == SeqsUpTo(RawItems, MaxResp) \cup {Repeat(ItemA, FACT_BATCH + 2)}

Card(it) == [front |-> it[2], back |-> it[3], mode |-> NormalizeMode(it[4])]

\* The cleaning loop of ai_generate_batch from item k on.
RECURSIVE GenerateClean(_, _, _, _, _)
GenerateClean(cards, k, n_cards, cleaned, seen_pairs) ==
  IF k > Len(cards) THEN cleaned
  ELSE LET c == cards[k] IN
    IF c[1] # "card" THEN GenerateClean(cards, k + 1, n_cards, cleaned, seen_pairs)
    ELSE IF c[2] = "" \/ c[3] = ""
      THEN GenerateClean(cards, k + 1, n_cards, cleaned, seen_pairs)
    ELSE IF <<c[2], c[3]>> \in seen_pairs
      THEN GenerateClean(cards, k + 1, n_cards, cleaned, seen_pairs)
    ELSE IF Len(cleaned) + 1 >= n_cards THEN Append(cleaned, Card(c))
    ELSE GenerateClean(cards, k + 1, n_cards, Append(cleaned, Card(c)),
                       seen_pairs \cup {<<c[2], c[3]>>})

\* Mutant of ai_generate_batch: every usable item is kept, whatever n_cards.
ai_generate_batch_uncut(cards, n_cards) ==
  GenerateClean(cards, 1, Len(cards) + 1, <<>>, {})

ai_generate_batch(cards, n_cards) == GenerateClean(cards, 1, n_cards, <<>>, {})

\* The cleaning loop of ai_cards_from_facts.
RECURSIVE FactsClean(_, _)
FactsClean(items, k) ==
  IF k > Len(items) THEN <<>>
  ELSE (IF items[k][1] = "card" /\ items[k][2] # "" /\ items[k][3] # ""
        THEN <<Card(items[k])>> ELSE <<>>)
       \o FactsClean(items, k + 1)

ai_cards_from_facts(items) == FactsClean(items, 1)

\* A fact text: its wording (0: empty after strip), whether it is written
\* with capitals, and whether it ends with a period.
Fact(stem, caps, dot) == [stem |-> stem, caps |-> caps, dot |-> dot]
\* Mutant of normalize_fact: the key is the text as returned.
normalize_fact_verbatim(f) == f

normalize_fact(f) == [stem |-> f.stem, caps |-> FALSE, dot |-> FALSE]

FactRun(n) == [k \in 1..n |-> Fact(k, FALSE, FALSE)]
FactResponses ==
  {<<>>,
   <<Fact(0, FALSE, FALSE)>>,
   <<Fact(1, FALSE, FALSE)>>,
   <<Fact(1, TRUE, TRUE), Fact(1, FALSE, FALSE), Fact(2, FALSE, FALSE)>>,
   FactRun(FACT_BATCH + 1)}

\* ai_extract_facts: the facts of a response that are not empty.
ai_extract_facts(items) == SelectSeq(items, LAMBDA f : f.stem # 0)

\* The merge loop of the exhaustive pipeline from fact k on:
\* <<all_facts, all_facts_normed>>.
RECURSIVE MergeFacts(_, _, _, _)
MergeFacts(facts, k, all_facts, all_facts_normed) ==
  IF k > Len(facts) THEN <<all_facts, all_facts_normed>>
  ELSE IF facts[k].stem = 0 \/ normalize_fact(facts[k]) \in all_facts_normed
    THEN MergeFacts(facts, k + 1, all_facts, all_facts_normed)
  ELSE MergeFacts(facts, k + 1, Append(all_facts, facts[k]),
                  all_facts_normed \cup {normalize_fact(facts[k])})

\* The note the deck receives for a card.
Note(c) == <<IF c.mode = CLOZE THEN "cloze_model" ELSE "basic_model", c.front, c.back>>

\* Mutant of MayAccept: the accept loop without its break test.
MayAcceptAlways(cards_added, limit) == TRUE

\* Whether the accept loop takes one more card (its break test).
MayAccept(cards_added, limit) == cards_added < limit

\* The accept loop of a pipeline from card k on: <<deck, number accepted>>.
RECURSIVE AcceptLoop(_, _, _, _, _, _)
AcceptLoop(cards, k, cards_added, limit, deck, actually_added) ==
  IF k > Len(cards) \/ ~MayAccept(cards_added, limit) THEN <<deck, actually_added>>
  ELSE IF cards[k].front = "" \/ cards[k].back = ""
    THEN AcceptLoop(cards, k + 1, cards_added, limit, deck, actually_added)
  ELSE AcceptLoop(cards, k + 1, cards_added + 1, limit,
                  Append(deck, Note(cards[k])), actually_added + 1)

\* ------------------------------------------------- /build-apkg: one run
Runs == {1, 2}

RunInit ==
  [pc |-> "idle", result |-> "",
   email |-> "", yield_level |-> 0, words |-> 0, approx_cards |-> 0,
   words_chunk |-> 0, sub |-> [found |-> FALSE, status |-> "", current_period_end |-> 0],
   usage |-> usage_defaults(0), loaded |-> FALSE, start_used |-> 0,
   remaining_cap |-> 0, chunks |-> <<>>, cidx |-> 1,
   all_facts |-> <<>>, all_facts_normed |-> {}, allowed_total |-> 0, i |-> 0,
   target_cards_total |-> 0, idx |-> 1, produced_for_chunk |-> 0,
   made_progress |-> FALSE, sweeping |-> FALSE, passes |-> 0,
   cards_added |-> 0, actually_added |-> 0, deck |-> <<>>,
   calls |-> 0, calls_at_error |-> 0, debits |-> 0, exported |-> FALSE]

\* The rows get_subscription() may return.
Lower(s) == IF s = "ACTIVE" THEN "active" ELSE s
NoRow == [found |-> FALSE, status |-> "", current_period_end |-> 0]
SubRows(now) ==
  {NoRow} \cup
  [found : {TRUE}, status : {"active", "trialing", "ACTIVE", "canceled", ""},
   current_period_end : (now - 1)..(now + 1)]

\* Mutant of is_active: the period end is not looked at.
is_active_any_period(sub_row, now) ==
  sub_row.found /\ Lower(sub_row.status) \in {"active", "trialing"}

is_active(sub_row, now) ==
  IF ~sub_row.found THEN FALSE
  ELSE IF Lower(sub_row.status) \notin {"active", "trialing"} THEN FALSE
  ELSE sub_row.current_period_end >= now

\* The requests of the model.
Emails == {"", "u@example.org"}
YieldLevels == {0, 5, 10}
TextWords == {0, 200, 350}
ApproxCards == {0, 4}
WordsPerChunk == {100, 300}
OVERLAP == 120
MIN_WORDS_CHUNK == 300

Fail(run, result) == [run EXCEPT !.pc = "failed", !.result = result]
SetRun(r, run) == runs' = [runs EXCEPT ![r] = run]

\* Mutant of CallError: the exception is swallowed and the loop goes on.
CallErrorSwallowed(run, result) ==
  [run EXCEPT !.result = result, !.calls = run.calls + 1,
              !.calls_at_error = run.calls + 1]

\* How a completion call that raised ends the run.
CallError(run, result) ==
  [Fail(run, result) EXCEPT !.calls = run.calls + 1,
                            !.calls_at_error = run.calls + 1]

\* The request arrives; the email and subscription gate.  space gives the
\* requests and subscription rows the step draws from.
GateRequest(r, space) ==
  /\ runs[r].pc = "idle"
  /\ \E email \in space.emails, y \in space.yields, w \in space.words,
        a \in space.approx, wpc \in space.words_per_chunk, sub \in space.rows :
       LET run == [runs[r] EXCEPT !.email = email, !.yield_level = y,
                                  !.words = w, !.approx_cards = a,
                                  !.words_chunk = Max(MIN_WORDS_CHUNK, wpc),
                                  !.sub = sub]
       IN SetRun(r, IF email = "" THEN Fail(run, "400 email required")
                    ELSE IF ~is_active(sub, clock)
                      THEN Fail(run, "402 subscription inactive")
                    ELSE [run EXCEPT !.pc = "gate_key"])
  /\ UNCHANGED <<clock, disk, link, led, procs, committed, OPENAI_API_KEY, calc>>

AllRequests ==
  [emails |-> Emails, yields |-> YieldLevels, words |-> TextWords,
   approx |-> ApproxCards, words_per_chunk |-> WordsPerChunk,
   rows |-> SubRows(clock)]

GateSubscription(r) == GateRequest(r, AllRequests)

\* The credential gate.  sub is not read after the subscription gate: the
\* model forgets the row once the run is past this gate.
GateCredential(r) ==
  /\ runs[r].pc = "gate_key"
  /\ SetRun(r, IF ~OPENAI_API_KEY THEN Fail(runs[r], "500 missing credential")
               ELSE [runs[r] EXCEPT !.pc = "gate_usage", !.sub = NoRow])
  /\ UNCHANGED <<clock, disk, link, led, procs, committed, OPENAI_API_KEY, calc>>

\* Mutant of IsExhaustive: yields up to one half take the exhaustive pipeline.
IsExhaustiveToHalf(yield_level) == yield_level <= 5

\* Which pipeline runs: yield_level <= 0.0 + 1e-9.
IsExhaustive(yield_level) == yield_level <= 0

\* Mutant of RemainingCap: the cards already used are not subtracted.
RemainingCapOfCapAlone(usage) == Max(0, usage["cap"][2])

\* remaining_cap = max(0, usage["cap"] - usage["cards_used"])
RemainingCap(usage) == Max(0, usage["cap"][2] - usage["cards_used"][2])

\* Mutant of QuotaExhausted: a remaining cap of 0 passes the gate.
QuotaExhaustedBelowZero(remaining_cap) == remaining_cap < 0

\* The test of the usage gate.
QuotaExhausted(remaining_cap) == remaining_cap <= 0

\* The usage gate: usage = load_usage(), the remaining cap, and the choice
\* of the pipeline.
GateUsage(r) ==
  /\ runs[r].pc = "gate_usage"
  /\ LET l == load_usage(disk, link, clock)
         remaining_cap == RemainingCap(l.ret)
         run == [runs[r] EXCEPT !.usage = l.ret, !.loaded = TRUE,
                                !.start_used = l.ret["cards_used"][2],
                                !.remaining_cap = remaining_cap]
     IN /\ disk' = l.disk
        /\ link' = l.link
        /\ SetRun(r, IF QuotaExhausted(remaining_cap) THEN Fail(run, "402 monthly limit")
                     ELSE IF IsExhaustive(run.yield_level)
                       THEN [run EXCEPT !.pc = "ex_extract",
                                        !.chunks = chunk_by_words(run.words, run.words_chunk, OVERLAP),
                                        !.cidx = 1]
                     ELSE [run EXCEPT !.pc = "bal_target"])
  /\ UNCHANGED <<clock, led, procs, committed, OPENAI_API_KEY, calc>>

\* Mutant of Debit: every debit adds the run's whole deck again.
DebitWholeDeck(r, run) ==
  LET usage == AddCards(run.usage, run.cards_added)
      fs == save_usage(usage, disk, clock)
  IN /\ disk' = fs.disk
     /\ link' = fs.link
     /\ SetRun(r, [run EXCEPT !.usage = usage, !.debits = run.debits + 1])

\* usage["cards_used"] += actually_added; save_usage(usage)
Debit(r, run) ==
  LET usage == AddCards(run.usage, run.actually_added)
      fs == save_usage(usage, disk, clock)
  IN /\ disk' = fs.disk
     /\ link' = fs.link
     /\ SetRun(r, [run EXCEPT !.usage = usage, !.debits = run.debits + 1])

NoDebit(r, run) ==
  /\ UNCHANGED <<disk, link>>
  /\ SetRun(r, run)

\* ---- exhaustive pipeline
\* Mutant of NoFacts: the run goes on to the cardization without facts.
NoFactsNever(all_facts) == FALSE

\* if not all_facts
NoFacts(all_facts) == all_facts = <<>>

\* for ch in chunks: one ai_extract_facts call and the merge of its facts;
\* after the last chunk, the test for no facts and allowed_total.
ExExtract(r) ==
  /\ runs[r].pc = "ex_extract"
  /\ LET run == runs[r] IN
     IF run.cidx > Len(run.chunks) THEN
       SetRun(r, IF NoFacts(run.all_facts) THEN Fail(run, "422 no facts")
                 ELSE [run EXCEPT !.pc = "ex_while",
                                  !.allowed_total = Min(Len(run.all_facts), run.remaining_cap),
                                  !.cards_added = 0, !.i = 0])
     ELSE
       \/ SetRun(r, CallError(run, "500 extraction error"))
       \/ \E resp \in FactResponses :
            LET m == MergeFacts(ai_extract_facts(resp), 1, run.all_facts,
                                run.all_facts_normed)
            IN SetRun(r, [run EXCEPT !.all_facts = m[1], !.all_facts_normed = m[2],
                                     !.cidx = run.cidx + 1,
                                     !.calls = run.calls + 1])
  /\ UNCHANGED <<clock, disk, link, led, procs, committed, OPENAI_API_KEY, calc>>

\* while i < allowed_total: one ai_cards_from_facts call and the accept loop.
ExCardize(r) ==
  /\ runs[r].pc = "ex_while"
  /\ LET run == runs[r] IN
     IF run.i < run.allowed_total THEN
       \/ SetRun(r, CallError(run, "500 cardization error"))
       \/ \E resp \in CardResponses :
            LET acc == AcceptLoop(ai_cards_from_facts(resp), 1, run.cards_added,
                                  run.allowed_total, run.deck, 0)
            IN SetRun(r, [run EXCEPT !.pc = "ex_debit", !.deck = acc[1],
                                     !.cards_added = run.cards_added + acc[2],
                                     !.actually_added = acc[2],
                                     !.calls = run.calls + 1])
     ELSE SetRun(r, IF run.cards_added = 0 THEN Fail(run, "422 no cards")
                    ELSE [run EXCEPT !.pc = "export"])
  /\ UNCHANGED <<clock, disk, link, led, procs, committed, OPENAI_API_KEY, calc>>

\* The debit of the batch, and i += 50.
ExDebit(r) ==
  /\ runs[r].pc = "ex_debit"
  /\ LET run == [runs[r] EXCEPT !.pc = "ex_while", !.i = runs[r].i + FACT_BATCH] IN
     IF run.actually_added > 0 THEN Debit(r, run) ELSE NoDebit(r, run)
  /\ UNCHANGED <<clock, led, procs, committed, OPENAI_API_KEY, calc>>

\* ---- balanced pipeline
\* chunk_targets[idx]
ChunkTarget(run, idx) ==
  Max(1, RoundHalfEven(run.chunks[idx][2] * cards_per_1000_words(run.yield_level),
                       10000))

\* Mutant of BalancedEnd: the deck is exported whatever it holds.
BalancedEndExports(run) == [run EXCEPT !.pc = "export"]

\* The end of the balanced branch: the test for zero cards.
BalancedEnd(run) ==
  IF run.cards_added = 0 THEN Fail(run, "422 no cards generated")
  ELSE [run EXCEPT !.pc = "export"]

\* dynamic_total, target_cards_total and the chunks.
BalTarget(r) ==
  /\ runs[r].pc = "bal_target"
  /\ LET run == runs[r]
         dynamic_total == estimate_total_cards(run.words, run.approx_cards,
                                               run.yield_level)
         target_cards_total == Min(dynamic_total, run.remaining_cap)
     IN SetRun(r, IF target_cards_total <= 0
                    THEN Fail([run EXCEPT !.target_cards_total = target_cards_total],
                              "402 no remaining quota")
                  ELSE [run EXCEPT !.pc = "bal_chunk",
                                   !.target_cards_total = target_cards_total,
                                   !.chunks = chunk_by_words(run.words, run.words_chunk, OVERLAP),
                                   !.cards_added = 0, !.idx = 1,
                                   !.produced_for_chunk = 0])
  /\ UNCHANGED <<clock, disk, link, led, procs, committed, OPENAI_API_KEY, calc>>

\* One ai_generate_batch call of n_this_call cards and the accept loop.
GenerateCall(run, n_this_call, next_pc, resp) ==
  LET acc == AcceptLoop(ai_generate_batch(resp, n_this_call), 1, run.cards_added,
                        run.target_cards_total, run.deck, 0)
  IN [run EXCEPT !.pc = next_pc, !.deck = acc[1],
                 !.cards_added = run.cards_added + acc[2],
                 !.produced_for_chunk = IF run.sweeping THEN run.produced_for_chunk
                                        ELSE run.produced_for_chunk + acc[2],
                 !.actually_added = acc[2],
                 !.calls = run.calls + 1]

\* for idx, chunk in enumerate(chunks): the inner while's test and one call.
BalCall(r) ==
  /\ runs[r].pc = "bal_chunk"
  /\ LET run == runs[r] IN
     IF run.idx > Len(run.chunks) THEN
       SetRun(r, [run EXCEPT !.pc = "sweep_while", !.sweeping = TRUE])
     ELSE IF /\ run.produced_for_chunk < ChunkTarget(run, run.idx)
             /\ run.cards_added < run.target_cards_total
     THEN
       \/ SetRun(r, CallError(run, "500 generation error"))
       \/ \E resp \in CardResponses :
            SetRun(r, GenerateCall(run,
                        choose_call_size(run.yield_level,
                                         run.target_cards_total - run.cards_added,
                                         ChunkTarget(run, run.idx) - run.produced_for_chunk),
                        "bal_debit", resp))
     ELSE SetRun(r, [run EXCEPT !.idx = run.idx + 1, !.produced_for_chunk = 0])
  /\ UNCHANGED <<clock, disk, link, led, procs, committed, OPENAI_API_KEY, calc>>

\* Mutant of ZeroYieldBreak: the chunk is asked again.
ZeroYieldRetry(run) == [run EXCEPT !.pc = "bal_chunk"]

\* else: break, out of the chunk's while loop and on to the next chunk.
ZeroYieldBreak(run) ==
  [run EXCEPT !.pc = "bal_chunk", !.idx = run.idx + 1, !.produced_for_chunk = 0]

\* The debit of the batch, or the break out of the chunk's loop.
BalDebit(r) ==
  /\ runs[r].pc = "bal_debit"
  /\ LET run == runs[r] IN
     IF run.actually_added > 0 THEN Debit(r, [run EXCEPT !.pc = "bal_chunk"])
     ELSE NoDebit(r, ZeroYieldBreak(run))
  /\ UNCHANGED <<clock, led, procs, committed, OPENAI_API_KEY, calc>>

\* while cards_added < target_cards_total: a new pass of the sweep.
SweepWhile(r) ==
  /\ runs[r].pc = "sweep_while"
  /\ LET run == runs[r] IN
     SetRun(r, IF run.cards_added < run.target_cards_total
               THEN [run EXCEPT !.pc = "sweep_for", !.made_progress = FALSE,
                                !.idx = 1, !.passes = run.passes + 1]
               ELSE BalancedEnd(run))
  /\ UNCHANGED <<clock, disk, link, led, procs, committed, OPENAI_API_KEY, calc>>

\* Mutant of PassWithoutProgress: the sweep ends after any pass.
PassEndsSweep(run) == TRUE

\* Mutant of PassWithoutProgress: a pass without progress is followed by
\* another pass.
PassNeverEndsSweep(run) == FALSE

\* if not made_progress: break
PassWithoutProgress(run) == ~run.made_progress

\* for chunk in chunks: the break test and one call; after the pass, the
\* test of made_progress.
SweepCall(r) ==
  /\ runs[r].pc = "sweep_for"
  /\ LET run == runs[r] IN
     IF run.idx > Len(run.chunks) \/ run.cards_added >= run.target_cards_total THEN
       SetRun(r, IF PassWithoutProgress(run) THEN BalancedEnd(run)
                 ELSE [run EXCEPT !.pc = "sweep_while"])
     ELSE
       \/ SetRun(r, CallError(run, "500 generation error"))
       \/ \E resp \in CardResponses :
            SetRun(r, GenerateCall(run,
                        choose_call_size(run.yield_level,
                                         run.target_cards_total - run.cards_added,
                                         run.target_cards_total - run.cards_added),
                        "sweep_debit", resp))
  /\ UNCHANGED <<clock, disk, link, led, procs, committed, OPENAI_API_KEY, calc>>

SweepDebit(r) ==
  /\ runs[r].pc = "sweep_debit"
  /\ LET run == runs[r] IN
     IF run.actually_added > 0
     THEN Debit(r, [run EXCEPT !.pc = "sweep_for", !.idx = run.idx + 1,
                               !.made_progress = TRUE])
     ELSE NoDebit(r, [run EXCEPT !.pc = "sweep_for", !.idx = run.idx + 1])
  /\ UNCHANGED <<clock, led, procs, committed, OPENAI_API_KEY, calc>>

\* Build and return the .apkg.
Export(r) ==
  /\ runs[r].pc = "export"
  /\ SetRun(r, [runs[r] EXCEPT !.pc = "done", !.result = "200 apkg",
                               !.exported = TRUE])
  /\ UNCHANGED <<clock, disk, link, led, procs, committed, OPENAI_API_KEY, calc>>

ExhaustiveStep(r) == ExExtract(r) \/ ExCardize(r) \/ ExDebit(r)

BalancedStep(r) ==
  \/ BalTarget(r)
  \/ BalCall(r)
  \/ BalDebit(r)
  \/ SweepWhile(r)
  \/ SweepCall(r)
  \/ SweepDebit(r)

PipelineStep(r) ==
  \/ GateCredential(r)
  \/ GateUsage(r)
  \/ ExhaustiveStep(r)
  \/ BalancedStep(r)
  \/ Export(r)

RunStep(r) == GateSubscription(r) \/ PipelineStep(r)

\* The usage files a run may find: none, records of this month and of last
\* month, and a record with a cap that is no number.
RunStoredRecords ==
  {[version |-> IntV(1), month |-> StrV(MonthStr(m)), cards_used |-> IntV(u),
    cap |-> c] :
     m \in {0, 1}, u \in {0, 1, 3}, c \in {IntV(0), IntV(3), StrV("x")}}
  \cup {[version |-> IntV(1), month |-> StrV(MonthStr(1)), cards_used |-> IntV(0),
          cap |-> IntV(100)]}

Init ==
  /\ clock = 1
  /\ \/ /\ link = NoInode
        /\ disk = EmptyDisk
     \/ /\ link = 1
        /\ \E rec \in RunStoredRecords : disk = DiskWith(json_dump(rec))
  /\ led = LedInit
  /\ procs = [p \in Procs |-> ProcInit]
  /\ committed = {}
  /\ OPENAI_API_KEY \in BOOLEAN
  /\ calc = CalcInit
  /\ runs = [r \in Runs |-> RunInit]

Next == RunStep(1)

Spec == Init /\ [][Next]_vars

\* ------------------------------------------------ SpecLedger: the ledger API
\* One ledger call per step, as the /usage and /usage/reset endpoints and a
\* handler's debit make them; led records the call for the properties.
Adds == 0..1
ResetBodies == {Absent, IntV(0), IntV(2), IntV(-1), StrV("2"), BoolV(TRUE), FltV(4)}

InitLedger ==
  /\ clock = 1
  /\ \/ /\ link = NoInode
        /\ disk = EmptyDisk
     \/ /\ link = 1
        /\ \E text \in StoredObjectFiles \cup StoredBrokenFiles : disk = DiskWith(text)
  /\ led = LedInit
  /\ procs = [p \in Procs |-> ProcInit]
  /\ committed = {}
  /\ OPENAI_API_KEY = TRUE
  /\ calc = CalcInit
  /\ runs = [r \in Runs |-> RunInit]

\* GET /usage
usage_endpoint ==
  LET r == load_usage(disk, link, clock) IN
  /\ disk' = r.disk
  /\ link' = r.link
  /\ led' = [op |-> "load", prev |-> led.op, before |-> FileText,
             existed |-> link # NoInode, raw |-> r.raw, ret |-> r.ret,
             wrote |-> r.wrote, arg |-> Absent, n |-> 0, at |-> clock,
             hasHeld |-> TRUE, held |-> r.ret, accepted |-> 0, debits |-> 0]
  /\ UNCHANGED <<clock, procs, committed, OPENAI_API_KEY, calc, runs>>

\* usage["cards_used"] += n; save_usage(usage), on the record the last
\* load_usage() returned (n = 0: save(load())).
DebitSave(n) ==
  /\ led.hasHeld
  /\ led.held["cards_used"][2] + n <= MaxUsed
  /\ LET usage == AddCards(led.held, n)
         fs == save_usage(usage, disk, clock)
     IN /\ disk' = fs.disk
        /\ link' = fs.link
        /\ led' = [led EXCEPT !.op = "save", !.prev = led.op, !.before = FileText,
                              !.existed = link # NoInode, !.raw = AsDoc(usage),
                              !.ret = usage, !.wrote = TRUE, !.n = n, !.at = clock,
                              !.held = usage]
  /\ UNCHANGED <<clock, procs, committed, OPENAI_API_KEY, calc, runs>>

\* POST /usage/reset
UsageResetCall(cap) ==
  LET fs == usage_reset(cap, disk, clock) IN
  /\ disk' = fs.disk
  /\ link' = fs.link
  /\ led' = [LedInit EXCEPT !.op = "reset", !.ret = ResetData(cap, clock),
                            !.wrote = TRUE, !.arg = cap, !.at = clock]
  /\ UNCHANGED <<clock, procs, committed, OPENAI_API_KEY, calc, runs>>

\* The calendar month changes; led notes how many cards the run in progress
\* has accepted and how many debits it has made by then.
Tick ==
  /\ clock < MaxClock
  /\ clock' = clock + 1
  /\ led' = [LedInit EXCEPT !.op = "tick", !.hasHeld = led.hasHeld,
                            !.held = led.held,
                            !.accepted = runs[1].cards_added,
                            !.debits = runs[1].debits]
  /\ UNCHANGED <<disk, link, procs, committed, OPENAI_API_KEY, calc, runs>>

NextLedger ==
  \/ usage_endpoint
  \/ \E n \in Adds : DebitSave(n)
  \/ \E cap \in ResetBodies : UsageResetCall(cap)
  \/ Tick

SpecLedger == InitLedger /\ [][NextLedger]_vars

\* ---------------------------------------------- SpecConc: two runs at once
\* Two /build-apkg requests served by two threads against the same usage
\* file.  A run's steps are the stretches between two of its accesses to
\* the file or to the completion service; load_usage and save_usage are
\* single steps here (SpecAtomic looks inside them).  Both requests ask the
\* balanced pipeline for 4 cards from a text of one chunk; the ledger has 1
\* or 2 cards left under its cap.
ConcRequests ==
  [emails |-> {"u@example.org"}, yields |-> {10}, words |-> {200},
   approx |-> {4}, words_per_chunk |-> {300},
   rows |-> {[found |-> TRUE, status |-> "active", current_period_end |-> clock]}]

ConcStoredRecords ==
  {[version |-> IntV(1), month |-> StrV(MonthStr(1)), cards_used |-> IntV(u),
    cap |-> IntV(3)] : u \in {1, 2}}

InitConc ==
  /\ clock = 1
  /\ link = 1
  /\ \E rec \in ConcStoredRecords : disk = DiskWith(json_dump(rec))
  /\ led = LedInit
  /\ procs = [p \in Procs |-> ProcInit]
  /\ committed = {}
  /\ OPENAI_API_KEY = TRUE
  /\ calc = CalcInit
  /\ runs = [r \in Runs |-> RunInit]

ConcGate(r) == GateRequest(r, ConcRequests)

NextConc ==
  \E r \in Runs :
    \/ ConcGate(r)
    \/ GateCredential(r)
    \/ GateUsage(r)
    \/ BalancedStep(r)
    \/ Export(r)

SpecConc == InitConc /\ [][NextConc]_vars

\* --------------------------- SpecEnv: a run, the reset endpoint, the months
\* One /build-apkg request of SpecConc's kind, served while POST /usage/reset
\* is called and the calendar month changes, at any point between two of
\* the run's steps.
NextEnv ==
  \/ ConcGate(1)
  \/ GateCredential(1)
  \/ GateUsage(1)
  \/ BalancedStep(1)
  \/ Export(1)
  \/ \E cap \in ResetBodies : UsageResetCall(cap)
  \/ Tick

SpecEnv == InitConc /\ [][NextEnv]_vars

\* ------------------------------------- SpecAtomic: inside load and save
\* Two threads call load_usage() and save_usage() at once; each file system
\* call (exists, open, read, mkstemp, write, replace) is a step.  An open
\* file is an inode: a replaced file lives on until its readers close it.
SmallestFree(dsk) ==
  CHOOSE i \in Inodes : dsk[i] = Free /\ \A j \in Inodes : j < i => dsk[j] # Free

\* Mutant of TempInode: the record is written into USAGE_PATH itself.
TempInodeInPlace(dsk, lnk) == IF lnk = NoInode THEN SmallestFree(dsk) ELSE lnk

\* tempfile.mkstemp(dir=DATA_DIR): a new file of its own.
TempInode(dsk, lnk) == SmallestFree(dsk)

HeldByOther(i, p) == \E q \in Procs \ {p} : procs[q].fd = i \/ procs[q].tmp = i

\* The records save_usage() is called with.
SaveRecords ==
  {[version |-> IntV(1), month |-> StrV(MonthStr(1)), cards_used |-> IntV(u),
    cap |-> IntV(3)] : u \in {1, 2}}

AtomicStoredFiles ==
  {json_dump([version |-> IntV(1), month |-> StrV(MonthStr(m)),
              cards_used |-> IntV(u), cap |-> IntV(3)]) :
     m \in {0, 1}, u \in {0, 2}}

InitAtomic ==
  /\ clock = 1
  /\ \/ /\ link = NoInode
        /\ disk = EmptyDisk
        /\ committed = {}
     \/ /\ link = 1
        /\ \E text \in AtomicStoredFiles :
             /\ disk = DiskWith(text)
             /\ committed = {text}
  /\ led = LedInit
  /\ procs = [p \in Procs |-> ProcInit]
  /\ OPENAI_API_KEY = TRUE
  /\ calc = CalcInit
  /\ runs = [r \in Runs |-> RunInit]

SetProc(p, proc) == procs' = [procs EXCEPT ![p] = proc]

BeginLoad(p) ==
  /\ procs[p].pc = "idle"
  /\ SetProc(p, [ProcInit EXCEPT !.pc = "exists", !.op = "load"])
  /\ UNCHANGED <<clock, disk, link, led, committed, OPENAI_API_KEY, calc, runs>>

\* save_usage(data): the validation, then _save_usage_atomic.
BeginSave(p) ==
  /\ procs[p].pc = "idle"
  /\ \E rec \in SaveRecords :
       SetProc(p, [ProcInit EXCEPT !.pc = "mkstemp", !.op = "save",
                                   !.data = validate_and_patch_usage(AsDoc(rec), clock)])
  /\ UNCHANGED <<clock, disk, link, led, committed, OPENAI_API_KEY, calc, runs>>

\* if not os.path.exists(USAGE_PATH)
FileExists(p) ==
  /\ procs[p].pc = "exists"
  /\ SetProc(p, IF link = NoInode
                THEN [procs[p] EXCEPT !.pc = "mkstemp", !.data = usage_defaults(clock)]
                ELSE [procs[p] EXCEPT !.pc = "open"])
  /\ UNCHANGED <<clock, disk, link, led, committed, OPENAI_API_KEY, calc, runs>>

\* open(USAGE_PATH, "r")
OpenFile(p) ==
  /\ procs[p].pc = "open"
  /\ SetProc(p, [procs[p] EXCEPT !.pc = "read", !.fd = link])
  /\ UNCHANGED <<clock, disk, link, led, committed, OPENAI_API_KEY, calc, runs>>

\* raw = json.load(f), the file closed, data = _validate_and_patch_usage(raw)
\* and the test raw != data.
ReadFile(p) ==
  /\ procs[p].pc = "read"
  /\ LET fd == procs[p].fd
         text == disk[fd]
         raw == ReadRaw(text)
         data == validate_and_patch_usage(raw, clock)
     IN /\ SetProc(p, [procs[p] EXCEPT
                         !.pc = IF DocEq(raw, AsDoc(data)) THEN "return" ELSE "mkstemp",
                         !.fd = NoInode, !.text = text, !.has_read = TRUE,
                         !.data = data])
        /\ disk' = IF fd # link /\ ~HeldByOther(fd, p)
                   THEN [disk EXCEPT ![fd] = Free] ELSE disk
  /\ UNCHANGED <<clock, link, led, committed, OPENAI_API_KEY, calc, runs>>

\* fd, tmp = tempfile.mkstemp(...): an empty file.
Mkstemp(p) ==
  /\ procs[p].pc = "mkstemp"
  /\ LET tmp == TempInode(disk, link) IN
       /\ SetProc(p, [procs[p] EXCEPT !.pc = "write", !.tmp = tmp])
       /\ disk' = [disk EXCEPT ![tmp] = <<>>]
  /\ UNCHANGED <<clock, link, led, committed, OPENAI_API_KEY, calc, runs>>

\* json.dump(data, f): the text reaches the file in one or more writes.
WriteChunk(p) ==
  /\ procs[p].pc = "write"
  /\ LET full == json_dump(procs[p].data)
         tmp == procs[p].tmp
         have == Len(disk[tmp])
     IN \E upto \in (have + 1)..Len(full) :
          /\ disk' = [disk EXCEPT ![tmp] = SubSeq(full, 1, upto)]
          /\ SetProc(p, [procs[p] EXCEPT
                           !.pc = IF upto = Len(full) THEN "replace" ELSE "write"])
  /\ UNCHANGED <<clock, link, led, committed, OPENAI_API_KEY, calc, runs>>

\* os.replace(tmp, USAGE_PATH)
Replace(p) ==
  /\ procs[p].pc = "replace"
  /\ LET tmp == procs[p].tmp IN
       /\ link' = tmp
       /\ disk' = IF link # NoInode /\ link # tmp /\ ~HeldByOther(link, p)
                  THEN [disk EXCEPT ![link] = Free] ELSE disk
       /\ committed' = committed \cup {disk[tmp]}
       /\ SetProc(p, [procs[p] EXCEPT !.pc = "return", !.tmp = NoInode])
  /\ UNCHANGED <<clock, led, OPENAI_API_KEY, calc, runs>>

\* The call returns.
Return(p) ==
  /\ procs[p].pc = "return"
  /\ SetProc(p, ProcInit)
  /\ UNCHANGED <<clock, disk, link, led, committed, OPENAI_API_KEY, calc, runs>>

NextAtomic ==
  \E p \in Procs :
    \/ BeginLoad(p)
    \/ BeginSave(p)
    \/ FileExists(p)
    \/ OpenFile(p)
    \/ ReadFile(p)
    \/ Mkstemp(p)
    \/ WriteChunk(p)
    \/ Replace(p)
    \/ Return(p)

SpecAtomic == InitAtomic /\ [][NextAtomic]_vars

\* ------------------------------------------- SpecPure: the pure helpers
\* Each step is one call of a helper on arguments drawn from the sets
\* below; calc records the call.
CallYields == {-3, 0, 3, 5, 7, 10, 12}
CallRemainders == {-1, 0, 1, 2, 5, 9, 12, 16, 20, 25, 101, 150}

InitPure ==
  /\ clock = 1
  /\ link = NoInode
  /\ disk = EmptyDisk
  /\ led = LedInit
  /\ procs = [p \in Procs |-> ProcInit]
  /\ committed = {}
  /\ OPENAI_API_KEY = TRUE
  /\ runs = [r \in Runs |-> RunInit]
  /\ calc = CalcInit

CallChooseCallSize ==
  /\ \E y \in CallYields, ro \in CallRemainders, rc \in CallRemainders :
       calc' = [fn |-> "choose_call_size", args |-> <<y, ro, rc>>,
                out |-> choose_call_size(y, ro, rc)]
  /\ UNCHANGED <<clock, disk, link, led, procs, committed, OPENAI_API_KEY, runs>>

CallChunkByWords ==
  /\ \E words \in 0..MaxWords, target_words \in 1..MaxTarget :
       \E overlap \in 0..(target_words - 1) :
         calc' = [fn |-> "chunk_by_words", args |-> <<words, target_words, overlap>>,
                  out |-> chunk_by_words(words, target_words, overlap)]
  /\ UNCHANGED <<clock, disk, link, led, procs, committed, OPENAI_API_KEY, runs>>

\* The responses and sizes of the recorded ai_generate_batch calls: a pair
\* may come back twice, with the same mode or another one.
ItemA2 == <<"card", "Q1", "A1", "essay">>
GenResponses ==
  SeqsUpTo(RawItems \cup {ItemA2}, MaxResp)
    \cup {<<ItemA2, ItemJunk, ItemA, ItemB>>, <<ItemB, ItemNoBack, ItemB, ItemA, ItemA2>>}
CallSizes == 1..3

\* One call of ai_generate_batch; prev_out is what the call before it returned.
CallGenerateBatch ==
  /\ \E cards \in GenResponses, n_cards \in CallSizes :
       calc' = [fn |-> "ai_generate_batch", args |-> <<cards, n_cards>>,
                out |-> ai_generate_batch(cards, n_cards),
                prev_out |-> IF calc.fn = "ai_generate_batch" THEN calc.out ELSE <<>>]
  /\ UNCHANGED <<clock, disk, link, led, procs, committed, OPENAI_API_KEY, runs>>

NextPure == CallChooseCallSize \/ CallChunkByWords \/ CallGenerateBatch

SpecPure == InitPure /\ [][NextPure]_vars

\* ------------------------------------------------------------- properties
\* cards_used of the persisted record (the file holds a validated record
\* from a run's usage gate on).
PersistedUsed == Persisted[2]["cards_used"][2]
PersistedCap == Persisted[2]["cap"][2]

\* The target of a run's pipeline: the number of deduplicated facts in the
\* exhaustive pipeline, the dynamic estimate in the balanced one.
RunTarget(run) ==
  IF IsExhaustive(run.yield_level) THEN Len(run.all_facts)
  ELSE estimate_total_cards(run.words, run.approx_cards, run.yield_level)

BetweenAcceptAndDebit(run) == run.pc \in {"ex_debit", "bal_debit", "sweep_debit"}
CallErrorResults ==
  {"500 extraction error", "500 cardization error", "500 generation error"}

\* C1: at every point of a run, the number of cards accepted into the deck
\* is at most min(target, remaining cap read at the usage gate), the target
\* being the number of deduplicated facts (exhaustive) or the dynamic
\* estimate (balanced), whatever the completion calls return.
C1_CardsWithinTargetAndCap ==
  \A r \in Runs :
    /\ runs[r].cards_added = Len(runs[r].deck)
    /\ runs[r].cards_added <= Min(RunTarget(runs[r]), runs[r].remaining_cap)

\* A run that got more cards than it may take: the cap read at the gate is
\* below the number of facts, and the deck holds exactly the cap.
C1_Witness ==
  /\ runs[1].pc = "done"
  /\ IsExhaustive(runs[1].yield_level)
  /\ runs[1].remaining_cap < Len(runs[1].all_facts)
  /\ runs[1].cards_added = runs[1].remaining_cap
  /\ Len(runs[1].deck) = 3

\* C2: with one run and no month change, the persisted cards_used never
\* exceeds cards_used at the gate plus the cards accepted so far, equals it
\* whenever the run is not between a batch's accept loop and its debit, and
\* every write of the run debited at least one card.
C2_IncrementalDebit ==
  runs[1].loaded =>
    /\ PersistedUsed <= runs[1].start_used + runs[1].cards_added
    /\ ~BetweenAcceptAndDebit(runs[1]) =>
         PersistedUsed = runs[1].start_used + runs[1].cards_added
    /\ BetweenAcceptAndDebit(runs[1]) =>
         PersistedUsed = runs[1].start_used + runs[1].cards_added
                           - runs[1].actually_added
    /\ runs[1].debits <= runs[1].cards_added

\* A run that debited twice, had a batch with no card, and started from a
\* ledger that was not empty.
C2_Witness ==
  /\ runs[1].pc = "done"
  /\ runs[1].start_used > 0
  /\ runs[1].debits = 2
  /\ runs[1].calls > 2
  /\ PersistedUsed = runs[1].start_used + 2

\* C3: a run whose remaining cap is 0 at the usage gate fails with the
\* monthly-limit rejection, having made no completion call and accepted no card.
C3_NoQuotaNoCalls ==
  \A r \in Runs :
    (runs[r].loaded /\ runs[r].remaining_cap = 0) =>
      /\ runs[r].pc = "failed"
      /\ runs[r].result = "402 monthly limit"
      /\ runs[r].calls = 0
      /\ runs[r].cards_added = 0
      /\ runs[r].deck = <<>>

\* A run rejected at the usage gate with more cards used than the cap.
C3_Witness ==
  /\ runs[1].loaded
  /\ runs[1].usage["cards_used"][2] > runs[1].usage["cap"][2]
  /\ runs[1].remaining_cap = 0
  /\ runs[1].result = "402 monthly limit"

InactiveRow(sub, now) ==
  \/ ~sub.found
  \/ Lower(sub.status) \notin {"active", "trialing"}
  \/ sub.current_period_end < now

\* C4: a run passes the subscription gate only with a row that is active or
\* trialing and not past its period end, and the credential gate only with
\* a credential; the two rejections are distinct terminal failures, made
\* before any completion call and before the ledger is read or written.
C4_GatesBeforeLedgerAndCalls ==
  \A r \in Runs :
    LET run == runs[r]
        untouched == run.calls = 0 /\ ~run.loaded /\ run.debits = 0
    IN /\ run.pc = "gate_key" => ~InactiveRow(run.sub, clock) /\ untouched
       /\ run.pc = "gate_usage" => OPENAI_API_KEY /\ untouched
       /\ run.result = "402 subscription inactive" =>
            run.pc = "failed" /\ InactiveRow(run.sub, clock) /\ untouched
       /\ run.result = "500 missing credential" =>
            /\ run.pc = "failed" /\ ~OPENAI_API_KEY /\ untouched
            /\ ~InactiveRow(run.sub, clock)
       /\ (run.pc = "failed" /\ run.email # "" /\ InactiveRow(run.sub, clock)
           /\ ~run.loaded) => run.result = "402 subscription inactive"
       /\ (run.loaded \/ run.calls > 0) => OPENAI_API_KEY

\* A run rejected for a subscription whose period has ended.
C4_Witness ==
  /\ runs[1].result = "402 subscription inactive"
  /\ runs[1].sub.found
  /\ runs[1].sub.status = "ACTIVE"
  /\ runs[1].sub.current_period_end < clock
  /\ link # NoInode

\* C5: a run in which a completion call failed is Failed, is not exported,
\* made no call after the failing one, and the persisted cards_used holds
\* every card accepted before the failure.
C5_CallErrorAborts ==
  \A r \in Runs :
    runs[r].result \in CallErrorResults =>
      /\ runs[r].pc = "failed"
      /\ ~runs[r].exported
      /\ runs[r].calls = runs[r].calls_at_error
      /\ r = 1 => PersistedUsed = runs[r].start_used + runs[r].cards_added

\* A run whose call failed in the sweep, after two debits.
C5_Witness ==
  /\ runs[1].result = "500 generation error"
  /\ runs[1].sweeping
  /\ runs[1].debits = 2
  /\ PersistedUsed = runs[1].start_used + runs[1].cards_added
  /\ runs[1].cards_added >= 2

\* cards_used before either run of SpecConc touched the ledger: what the
\* first run to pass the usage gate read.
ConcInitialUsed == Min(runs[1].start_used, runs[2].start_used)
Overshoot ==
  /\ runs[1].loaded /\ runs[2].loaded
  /\ runs[1].cards_added + runs[2].cards_added
       > runs[1].usage["cap"][2] - ConcInitialUsed

\* C6: two concurrent runs each stay within the remaining cap they read at
\* their own usage gate, and they jointly accept more than the cap allowed
\* only when each read a cards_used that misses cards of the other run; the
\* witness is a state where they did so after reading the same cards_used.
C6_EachWithinItsStaleCap ==
  /\ \A r \in Runs : runs[r].cards_added <= runs[r].remaining_cap
  /\ Overshoot =>
       /\ runs[1].start_used < ConcInitialUsed + runs[2].cards_added
       /\ runs[2].start_used < ConcInitialUsed + runs[1].cards_added

\* Both runs read the same cards_used, and together they accepted more
\* cards than the cap left.
C6_Witness ==
  /\ Overshoot
  /\ runs[1].start_used = runs[2].start_used
  /\ runs[1].pc = "done" /\ runs[2].pc = "done"
  /\ runs[1].cards_added = runs[1].remaining_cap
  /\ runs[2].cards_added = runs[2].remaining_cap

\* C7: whatever the interleaving of loads and saves, the text a load reads
\* is a text that USAGE_PATH held as a whole file: the record from before a
\* save or the record a save wrote, never a file that is being written.
C7_LoadReadsWholeFile ==
  \A p \in Procs : procs[p].has_read => procs[p].text \in committed

\* A load read a whole record while the other thread's save had written
\* only a part of its temporary file.
C7_Witness ==
  /\ procs[1].has_read
  /\ procs[1].pc = "return"
  /\ json_load(procs[1].text)[1]
  /\ procs[2].op = "save"
  /\ procs[2].pc = "write"
  /\ Len(disk[procs[2].tmp]) \in 1..(Len(json_dump(procs[2].data)) - 1)

\* ---- the ledger calls of SpecLedger
\* The file a call found, parsed: <<parsed?, document>>.
StoredDoc == json_load(led.before)
StoredIsRecord == led.existed /\ StoredDoc[1] /\ StoredDoc[2][1] = "dict"
StoredField(k) ==
  IF StoredIsRecord /\ k \in DOMAIN StoredDoc[2][2] THEN StoredDoc[2][2][k] ELSE Absent
PersistedField(k) == Persisted[2][k]
CurrentMonth == StrV(MonthStr(clock))

\* A number whose value is an integer >= 0, whatever its JSON type.
WholeNumber(v) == IsNumber(v) /\ Halves(v) >= 0 /\ Halves(v) % 2 = 0
\* A value int() does not convert, or no value at all.
Unconvertible(v) == v \in {Absent, NullV, StrV("x")}
Negative(v) == IsNumber(v) /\ Halves(v) < 0
\* Two documents equal as Python compares them: the same keys, and for each
\* key values that are == (2.0 == 2, True == 1).
SameRecord(a, b) ==
  /\ a[1] = "dict"
  /\ b[1] = "dict"
  /\ DOMAIN a[2] = DOMAIN b[2]
  /\ \A k \in DOMAIN a[2] : PyEq(a[2][k], b[2][k])
\* Every number of a document is a JSON integer.
IntegersOnly(a) ==
  a[1] = "dict" /\ \A k \in DOMAIN a[2] : a[2][k][1] \notin {"flt", "bool"}

\* C8: a load that finds a record whose month is not the current month
\* returns a record with the current month, cards_used = 0 and the stored
\* cap when that cap is an integer >= 0, and the file holds that record.
C8_MonthRollover ==
  (/\ led.op = "load"
   /\ StoredIsRecord
   /\ StoredField("month") \notin {Absent, CurrentMonth})
  => /\ led.ret["month"] = CurrentMonth
     /\ led.ret["cards_used"] = IntV(0)
     /\ (StoredField("cap")[1] = "int" /\ StoredField("cap")[2] >= 0
           => led.ret["cap"] = StoredField("cap"))
     /\ FileText = json_dump(led.ret)

\* A load, after the month changed, of last month's record with 2 cards used
\* under a cap of 2.
C8_Witness ==
  /\ led.op = "load"
  /\ led.prev = "tick"
  /\ StoredField("month") = StrV(MonthStr(clock - 1))
  /\ StoredField("cards_used") = IntV(2)
  /\ StoredField("cap") = IntV(2)
  /\ PersistedField("cards_used") = IntV(0)
  /\ PersistedField("cap") = IntV(2)

\* save(load()) with nothing in between (so within one month).
SaveOfLoad == led.op = "save" /\ led.prev = "load" /\ led.n = 0

\* C9 as stated: after save(load()) the persisted record is identical to the
\* record persisted after the load.
C9_SaveOfLoadIdentical == SaveOfLoad => Persisted = ReadRaw(led.before)

\* C9, amended: after save(load()) the persisted record equals the record
\* persisted after the load as Python compares records, and the file is
\* the same text when every number of the record after the load was a JSON
\* integer.
C9_SaveOfLoadEqualByValue ==
  SaveOfLoad =>
    /\ SameRecord(Persisted, ReadRaw(led.before))
    /\ IntegersOnly(ReadRaw(led.before)) => FileText = led.before

\* save(load()) of a record with 2 cards used left the file as it was.
C9_Witness ==
  /\ SaveOfLoad
  /\ FileText = led.before
  /\ PersistedField("cards_used") = IntV(2)

\* What every ledger call leaves in the file: a record of the four fields
\* with whole-number counters (JSON integers when the call wrote the file),
\* the current month and the schema version.
PersistedValid ==
  /\ json_load(FileText)[1]
  /\ Persisted[1] = "dict"
  /\ DOMAIN Persisted[2] = UsageKeySet
  /\ WholeNumber(PersistedField("cards_used"))
  /\ WholeNumber(PersistedField("cap"))
  /\ PersistedField("month") = CurrentMonth
  /\ PyEq(PersistedField("version"), IntV(USAGE_SCHEMA_VERSION))
  /\ FileText # led.before => IntegersOnly(Persisted)

LedgerCall == led.op \in {"load", "save", "reset"}
MalformedCardsUsedHealed ==
  (Unconvertible(StoredField("cards_used")) \/ Negative(StoredField("cards_used")))
    => PersistedField("cards_used") = IntV(0)
LoadWroteFile == FileText # led.before \/ ~led.existed
LoadWritesOnDifference ==
  LoadWroteFile <=> (~led.existed \/ ~SameRecord(ReadRaw(led.before), AsDoc(led.ret)))

\* C10 as stated: after a load, save or reset the persisted record is valid;
\* a load turns a malformed (negative or non-numeric) cards_used into 0 and
\* a malformed (negative or non-numeric) cap into the default cap, and
\* writes the file only when the validated record differs from what it read.
C10_MalformedCapBecomesDefault ==
  LedgerCall =>
    /\ PersistedValid
    /\ led.op = "load" =>
         /\ MalformedCardsUsedHealed
         /\ (Unconvertible(StoredField("cap")) \/ Negative(StoredField("cap")))
              => PersistedField("cap") = IntV(DEFAULT_CAP_CARDS_PER_MONTH)
         /\ LoadWritesOnDifference

\* C10, amended: as stated, except that only a cap int() cannot convert (or
\* a missing cap) becomes the default cap, while a negative cap becomes 0.
C10_SelfHealing ==
  LedgerCall =>
    /\ PersistedValid
    /\ led.op = "load" =>
         /\ MalformedCardsUsedHealed
         /\ Unconvertible(StoredField("cap"))
              => PersistedField("cap") = IntV(DEFAULT_CAP_CARDS_PER_MONTH)
         /\ Negative(StoredField("cap")) => PersistedField("cap") = IntV(0)
         /\ LoadWritesOnDifference

\* A load found a record of this month with a non-numeric cards_used and a
\* negative cap, and rewrote it.
C10_Witness ==
  /\ led.op = "load"
  /\ StoredField("month") = CurrentMonth
  /\ StoredField("cards_used") = StrV("x")
  /\ StoredField("cap") = IntV(-1)
  /\ FileText # led.before
  /\ PersistedField("cards_used") = IntV(0)
  /\ PersistedField("cap") = IntV(0)

\* C11: an exhaustive run whose extraction calls leave the global fact list
\* empty fails with "no facts" having made only its extraction calls (one
\* per chunk) and no debit; a run that made a cardization call, or got past
\* the extraction, has at least one fact.
C11_NoFactsNoCardization ==
  \A r \in Runs :
    LET run == runs[r] IN
    /\ run.result = "422 no facts" =>
         /\ run.pc = "failed"
         /\ IsExhaustive(run.yield_level)
         /\ run.all_facts = <<>>
         /\ run.calls = Len(run.chunks)
         /\ run.debits = 0
         /\ run.deck = <<>>
         /\ PersistedUsed = run.start_used
    /\ (/\ IsExhaustive(run.yield_level)
        /\ \/ run.pc \in {"ex_while", "ex_debit", "export", "done"}
           \/ run.calls > Len(run.chunks)
           \/ run.result \in {"500 cardization error", "422 no cards"})
       => run.all_facts # <<>>

\* A run over two chunks whose two extraction calls returned no usable fact.
C11_Witness ==
  /\ runs[1].result = "422 no facts"
  /\ Len(runs[1].chunks) = 2
  /\ runs[1].calls = 2

\* A run that is over, without any completion call having raised, after it
\* entered its pipeline's card loop (facts were found, or the balanced target
\* was positive).
NoCardsResults == {"422 no cards", "422 no cards generated"}
EndedAfterCardLoop(run) ==
  /\ run.pc \in {"done", "failed"}
  /\ run.result \notin CallErrorResults
  /\ \/ IsExhaustive(run.yield_level) /\ run.all_facts # <<>>
     \/ ~IsExhaustive(run.yield_level) /\ run.target_cards_total > 0

NearestAuto(words, yield_level, q) ==
  LET y == IF yield_level < 0 THEN 0 ELSE IF yield_level > 10 THEN 10 ELSE yield_level
      exact10000 == words * (180 - 12 * y)
  IN /\ 10000 * q - exact10000 < 5000
     /\ exact10000 - 10000 * q < 5000

\* C13: a balanced run's target is min(max(approx_cards, the rounded density
\* estimate), remaining cap at the gate); a target <= 0 ends the run with
\* "no remaining quota" before any completion call, and only that does.
C13_BalancedTarget ==
  \A r \in Runs :
    LET run == runs[r]
        past == \/ run.pc \in {"bal_chunk", "bal_debit", "sweep_while", "sweep_for",
                               "sweep_debit"}
                \/ run.result \in {"402 no remaining quota", "500 generation error",
                                   "422 no cards generated"}
                \/ ~IsExhaustive(run.yield_level) /\ run.pc \in {"export", "done"}
    IN /\ past =>
            \E q \in 0..run.words :
              /\ NearestAuto(run.words, run.yield_level, q)
              /\ run.target_cards_total =
                   Min(IF run.approx_cards > q THEN run.approx_cards ELSE q,
                       run.remaining_cap)
       /\ run.result = "402 no remaining quota" =>
            /\ run.pc = "failed"
            /\ run.target_cards_total <= 0
            /\ run.calls = 0
            /\ run.debits = 0
       /\ (past /\ run.result # "402 no remaining quota") => run.target_cards_total > 0

\* A balanced run whose floor (4) is above the density estimate and above
\* the remaining cap (3): the target is 3.
C13_Witness ==
  /\ runs[1].pc = "bal_chunk"
  /\ runs[1].approx_cards = 4
  /\ runs[1].words = 200
  /\ runs[1].remaining_cap = 3
  /\ runs[1].target_cards_total = 3

\* ---- the pure helpers of SpecPure
\* base of choose_call_size: round(12 - 6y) with y clamped to [0, 1] (given
\* in tenths), clamped to [3, 16], plus 4 capped at 20 when more than 100
\* cards remain overall.
BaseBound(yield_level, remaining_overall) ==
  LET y == IF yield_level < 0 THEN 0 ELSE IF yield_level > 10 THEN 10 ELSE yield_level
      b0 == CHOOSE b \in 0..20 : 10 * b - (120 - 6 * y) < 5 /\ (120 - 6 * y) - 10 * b < 5
      b1 == IF b0 < 3 THEN 3 ELSE IF b0 > 16 THEN 16 ELSE b0
  IN IF remaining_overall > 100 THEN (IF b1 + 4 > 20 THEN 20 ELSE b1 + 4) ELSE b1

Least(S) == CHOOSE x \in S : \A z \in S : x <= z

\* C14 as stated: for every yield and every two integers, the call size is
\* in [1, min(base, remainingOverall, remainingForChunk)].
C14_CallSizeWithinBoundsAlways ==
  calc.fn = "choose_call_size" =>
    /\ calc.out >= 1
    /\ calc.out <= Least({BaseBound(calc.args[1], calc.args[2]), calc.args[2],
                          calc.args[3]})

\* C14, amended: when both remainders are at least 1 the call size is
\* exactly min(base, remainingOverall, remainingForChunk), which is in
\* [1, base]; when a remainder is 0 or negative the call size is 1, above
\* that remainder.
C14_CallSizeWithinPositiveBounds ==
  calc.fn = "choose_call_size" =>
    IF calc.args[2] >= 1 /\ calc.args[3] >= 1
    THEN /\ calc.out = Least({BaseBound(calc.args[1], calc.args[2]), calc.args[2],
                              calc.args[3]})
         /\ calc.out >= 1
         /\ calc.out <= calc.args[2]
         /\ calc.out <= calc.args[3]
    ELSE calc.out = 1

\* A call with more than 100 cards remaining overall and 25 for the chunk:
\* the size is the raised base, 16 at yield 0.
C14_Witness ==
  /\ calc.fn = "choose_call_size"
  /\ calc.args = <<0, 150, 25>>
  /\ calc.out = 16

\* The words of chunk k of the last chunk_by_words call, as word indices.
ChunkWords(k) == calc.out[k][1]..(calc.out[k][1] + calc.out[k][2] - 1)
ChunksCover ==
  /\ \A w \in 0..(calc.args[1] - 1) : \E k \in 1..Len(calc.out) : w \in ChunkWords(k)
  /\ \A k \in 1..Len(calc.out) :
       /\ ChunkWords(k) # {}
       /\ ChunkWords(k) \subseteq 0..(calc.args[1] - 1)
       /\ calc.out[k][2] <= calc.args[2]
  /\ calc.args[1] > 0 => Len(calc.out) > 0 /\ calc.out[1][1] = 0
  /\ calc.args[1] = 0 => calc.out = <<>>
Shared(k) == Cardinality(ChunkWords(k) \cap ChunkWords(k + 1))

\* C15 as stated: the chunks cover every word, the first starts at word 0,
\* and two consecutive chunks share exactly O words unless the second one
\* is the final chunk and shorter than T.
C15_OnlyFinalPairSharesLess ==
  calc.fn = "chunk_by_words" =>
    /\ ChunksCover
    /\ \A k \in 1..(Len(calc.out) - 1) :
         \/ Shared(k) = calc.args[3]
         \/ k + 1 = Len(calc.out) /\ calc.out[k + 1][2] < calc.args[2]

\* C15, amended: the chunks cover every word, the first starts at word 0,
\* chunk k starts at word (k - 1) x (T - O), and two consecutive chunks
\* share min(O, length of the second chunk) words: exactly O, unless the
\* second chunk is shorter than O and so lies wholly inside the first.
\* When 2 x O <= T only the final chunk can be that short.
C15_ChunksCoverAndOverlap ==
  calc.fn = "chunk_by_words" =>
    /\ ChunksCover
    /\ \A k \in 1..Len(calc.out) : calc.out[k][1] = (k - 1) * (calc.args[2] - calc.args[3])
    /\ \A k \in 1..(Len(calc.out) - 1) :
         /\ Shared(k) = IF calc.out[k + 1][2] < calc.args[3] THEN calc.out[k + 1][2]
                        ELSE calc.args[3]
         /\ (2 * calc.args[3] <= calc.args[2] /\ calc.out[k + 1][2] < calc.args[3])
              => k + 1 = Len(calc.out)

\* Six words in windows of four overlapping by three: the last three
\* chunks are shorter than four words, and the pair before the final pair
\* shares two words.
C15_Witness ==
  /\ calc.fn = "chunk_by_words"
  /\ calc.args = <<6, 4, 3>>
  /\ Len(calc.out) = 6
  /\ Shared(4) = 2
  /\ Shared(1) = 3

\* ---- facts and cards of the exhaustive pipeline
\* Two fact texts that differ only in casing or in a trailing period.
SameFact(f, g) == f.stem = g.stem
IsPrefix(a, b) == Len(a) <= Len(b) /\ \A k \in 1..Len(a) : a[k] = b[k]

\* C16: in every step of an exhaustive run the global fact list keeps the
\* facts it has, in their place and wording (so the first occurrence stays),
\* and never holds two facts that differ only in casing or trailing period;
\* all_facts_normed holds exactly the keys of the facts retained.
C16_FactsRetainedOnce ==
  [][\A r \in Runs :
       /\ runs[r].pc # "idle" => IsPrefix(runs[r].all_facts, runs'[r].all_facts)
       /\ \A j, k \in 1..Len(runs'[r].all_facts) :
            SameFact(runs'[r].all_facts[j], runs'[r].all_facts[k]) => j = k
       /\ \A k \in 1..Len(runs'[r].all_facts) : runs'[r].all_facts[k].stem # 0
       /\ Cardinality(runs'[r].all_facts_normed) = Len(runs'[r].all_facts)]_vars

\* The first chunk returned a fact in lower case; the second chunk returned
\* it capitalised and with a period, then in lower case again, then a new
\* fact: the list holds the fact once, as first returned, and the new fact.
C16_Witness ==
  /\ runs[1].pc = "ex_while"
  /\ Len(runs[1].chunks) = 2
  /\ runs[1].all_facts = <<Fact(1, FALSE, FALSE), Fact(2, FALSE, FALSE)>>

\* The (front, back) pair of a note of the deck.
NotePair(note) == <<note[2], note[3]>>

\* C17 as stated: in an exhaustive run, a card accepted from a cardization
\* call never has the (front, back) pair of a card accepted from an earlier
\* call of the run.
C17_NoPairFromTwoCalls ==
  \A r \in Runs :
    LET run == runs[r]
        earlier == Len(run.deck) - run.actually_added
    IN (IsExhaustive(run.yield_level) /\ run.pc = "ex_debit") =>
         \A j \in 1..earlier, k \in (earlier + 1)..Len(run.deck) :
           NotePair(run.deck[j]) # NotePair(run.deck[k])

\* ---- the choice of the pipeline
ExhaustivePcs == {"ex_extract", "ex_while", "ex_debit"}
ExhaustiveResults ==
  {"422 no facts", "500 extraction error", "500 cardization error", "422 no cards"}
BalancedPcs ==
  {"bal_target", "bal_chunk", "bal_debit", "sweep_while", "sweep_for", "sweep_debit"}
BalancedResults ==
  {"402 no remaining quota", "500 generation error", "422 no cards generated"}
\* What each pipeline leaves in the run's locals.
ExhaustiveTouched(run) == run.all_facts # <<>> \/ run.cidx > 1 \/ run.allowed_total > 0
BalancedTouched(run) ==
  run.target_cards_total # 0 \/ run.sweeping \/ run.idx > 1 \/ run.produced_for_chunk > 0

\* C18: a run past the usage gate is in exactly one pipeline, the exhaustive
\* one when the yield is 0 (or below) and the balanced one when it is above
\* 0, and never has locals of the other; an exhaustive run accepts at most
\* the remaining cap read at the gate (at most 100 with a remaining cap of
\* 100).
C18_OnePipeline ==
  \A r \in Runs :
    LET run == runs[r]
        inExhaustive == run.pc \in ExhaustivePcs \/ run.result \in ExhaustiveResults
        inBalanced == run.pc \in BalancedPcs \/ run.result \in BalancedResults
    IN /\ inExhaustive => run.yield_level <= 0 /\ ~BalancedTouched(run)
       /\ inBalanced => run.yield_level > 0 /\ ~ExhaustiveTouched(run)
       /\ run.pc \in {"export", "done"} =>
            IF run.yield_level <= 0
            THEN ExhaustiveTouched(run) /\ ~BalancedTouched(run)
            ELSE BalancedTouched(run) /\ ~ExhaustiveTouched(run)
       /\ (run.loaded /\ run.result # "402 monthly limit") =>
            inExhaustive \/ inBalanced \/ run.pc \in {"export", "done"}
       /\ run.yield_level <= 0 =>
            /\ run.cards_added <= run.remaining_cap
            /\ run.allowed_total <= run.remaining_cap

\* A request with yield 0.0 found a remaining cap of 100: the exhaustive
\* pipeline ran, over 51 facts, and the exported deck holds 51 cards.
C18_Witness ==
  /\ runs[1].pc = "done"
  /\ runs[1].yield_level = 0
  /\ runs[1].remaining_cap = 100
  /\ ExhaustiveTouched(runs[1])
  /\ runs[1].cards_added = 51

\* ---- the balanced pipeline's loops
\* produced is within the sub-target of chunk idx: max(1, the integer
\* nearest to chunk words/1000 x density).
WithinSubTarget(run, idx, produced) ==
  \E q \in 0..run.chunks[idx][2] :
    /\ NearestAuto(run.chunks[idx][2], run.yield_level, q)
    /\ produced <= (IF q < 1 THEN 1 ELSE q)
SubTargetMet(run, idx, produced) ==
  \E q \in 0..run.chunks[idx][2] :
    /\ NearestAuto(run.chunks[idx][2], run.yield_level, q)
    /\ produced >= (IF q < 1 THEN 1 ELSE q)

\* C19: in the per-chunk phase the chunks are taken in source order from the
\* first; a call is made only while the chunk's sub-target and the overall
\* target are unmet, and the chunk is left without a call only when one of
\* them is met; a call with zero accepted cards moves the run to the next
\* chunk, without error and without debit (so a chunk gets at most one such
\* call); a call with accepted cards is debited and the chunk stays; and a
\* chunk never has more accepted cards than its sub-target.
C19_PerChunkPhase ==
  [][\A r \in Runs :
       LET run == runs[r]
           next == runs'[r]
       IN /\ (run.pc = "bal_target" /\ next.pc = "bal_chunk") =>
               next.idx = 1 /\ next.produced_for_chunk = 0
          /\ (run.pc = "bal_chunk" /\ next.calls = run.calls + 1) =>
               /\ run.idx <= Len(run.chunks)
               /\ ~SubTargetMet(run, run.idx, run.produced_for_chunk)
               /\ run.cards_added < run.target_cards_total
               /\ next.idx = run.idx
          /\ (run.pc = "bal_chunk" /\ next.calls = run.calls) =>
               IF run.idx > Len(run.chunks)
               THEN next.pc = "sweep_while" /\ next.idx = run.idx
               ELSE /\ next.pc = "bal_chunk"
                    /\ next.idx = run.idx + 1
                    /\ next.produced_for_chunk = 0
                    /\ \/ SubTargetMet(run, run.idx, run.produced_for_chunk)
                       \/ run.cards_added >= run.target_cards_total
          /\ (run.pc = "bal_debit" /\ run.actually_added = 0) =>
               /\ next.pc = "bal_chunk"
               /\ next.idx = run.idx + 1
               /\ next.result = ""
               /\ next.debits = run.debits
          /\ (run.pc = "bal_debit" /\ run.actually_added > 0) =>
               /\ next.pc = "bal_chunk"
               /\ next.idx = run.idx
               /\ next.debits = run.debits + 1
          /\ (next.pc \in {"bal_chunk", "bal_debit"} /\ next.idx <= Len(next.chunks)) =>
               WithinSubTarget(next, next.idx, next.produced_for_chunk)]_vars

\* The first chunk's call gave no card; the run went on to the second chunk,
\* whose call gave one.
C19_Witness ==
  /\ runs[1].pc = "bal_chunk"
  /\ ~runs[1].sweeping
  /\ runs[1].idx = 2
  /\ Len(runs[1].chunks) = 2
  /\ runs[1].calls = 2
  /\ runs[1].produced_for_chunk = 1
  /\ runs[1].cards_added = 1
  /\ runs[1].debits = 1

\* C20: the sweep makes a call only while the overall target is unmet, after
\* the per-chunk phase has gone through all chunks; each pass takes the
\* chunks in order from the first; made_progress tells whether the pass has
\* accepted a card; the sweep goes on after a pass that accepted a card and
\* left the target unmet, and ends, without a failed call, exactly when the
\* target is met or a whole pass accepted no card; it then exports the deck
\* when the run has at least one card and fails with "no cards generated"
\* only when it has none.
C20_Sweep ==
  [][\A r \in Runs :
       LET run == runs[r]
           next == runs'[r]
           met == run.cards_added >= run.target_cards_total
           passOver == run.idx > Len(run.chunks)
           ended == next.pc \in {"export", "failed"} /\ next.result \notin CallErrorResults
       IN /\ next.pc = "sweep_while" /\ run.pc = "bal_chunk" =>
               run.idx > Len(run.chunks)
          /\ run.pc = "sweep_while" =>
               IF met THEN ended
               ELSE next.pc = "sweep_for" /\ next.idx = 1 /\ ~next.made_progress
          /\ (run.pc = "sweep_for" /\ next.calls = run.calls + 1) =>
               ~met /\ ~passOver /\ next.made_progress = run.made_progress
          /\ (run.pc = "sweep_for" /\ next.calls = run.calls) =>
               /\ met \/ passOver
               /\ IF run.made_progress THEN next.pc = "sweep_while"
                  ELSE ended /\ passOver
          /\ run.pc = "sweep_debit" =>
               /\ next.pc = "sweep_for"
               /\ next.idx = run.idx + 1
               /\ next.made_progress = (run.made_progress \/ run.actually_added > 0)
               /\ next.debits = run.debits + (IF run.actually_added > 0 THEN 1 ELSE 0)
          /\ (run.pc \in {"sweep_while", "sweep_for"} /\ ended) =>
               /\ met \/ (run.pc = "sweep_for" /\ passOver /\ ~run.made_progress)
               /\ IF run.cards_added > 0
                  THEN next.pc = "export" /\ next.result = ""
                  ELSE next.pc = "failed" /\ next.result = "422 no cards generated"]_vars

\* A sweep ended on a pass over two chunks that accepted no card, below the
\* target, and the run went on to export the cards accepted before.
C20_Witness ==
  /\ runs[1].pc = "export"
  /\ runs[1].sweeping
  /\ Len(runs[1].chunks) = 2
  /\ runs[1].idx = 3
  /\ ~runs[1].made_progress
  /\ runs[1].cards_added >= 1
  /\ runs[1].cards_added < runs[1].target_cards_total

\* The passes of the sweep (lines 760-792): a pass is over when the for loop
\* has left the chunks or met the target; the sweep is over when the run has
\* left both of its loops.
SweepOver(run) == run.sweeping /\ run.passes > 0 /\ run.pc \in {"export", "done", "failed"}
CallRaised(run) == run.result \in CallErrorResults
AllZeroPass(run) == ~run.made_progress
TargetUnmet(run) == run.cards_added < run.target_cards_total

Usable(cards, k) == cards[k][1] = "card" /\ cards[k][2] # "" /\ cards[k][3] # ""
Pair(c) == <<c[2], c[3]>>
FirstOfPair(cards) ==
  {k \in 1..Len(cards) :
     /\ Usable(cards, k)
     /\ \A j \in 1..(k - 1) : Usable(cards, j) => Pair(cards[j]) # Pair(cards[k])}
Nth(S, n) == CHOOSE k \in S : Cardinality({j \in S : j < k}) = n - 1
CanonicalModeOf(m) ==
  IF m \in UNION {ModeAliases(CANONICAL_MODES[i]) : i \in 1..Len(CANONICAL_MODES)}
  THEN CHOOSE canon \in {CANONICAL_MODES[i] : i \in 1..Len(CANONICAL_MODES)} :
         m \in ModeAliases(canon)
  ELSE BASIC

\* C22: a call of ai_generate_batch asked for N >= 1 cards returns at most N
\* cards, none with an empty front or back, no two with the same (front,
\* back) pair, each with a canonical mode (an unrecognized mode becomes Basic
\* Recall), in the order of the response: the result is the first N items
\* that carry a new pair, whatever an earlier call returned.
C22_GenerateBatchCleaning ==
  calc.fn = "ai_generate_batch" =>
    LET cards == calc.args[1]
        n_cards == calc.args[2]
        out == calc.out
        kept == FirstOfPair(cards)
    IN /\ Len(out) <= n_cards
       /\ Len(out) = Min(n_cards, Cardinality(kept))
       /\ \A i \in 1..Len(out) :
            /\ out[i].front # "" /\ out[i].back # ""
            /\ out[i].mode \in {BASIC, CLOZE, MECHANISM, SCENARIO}
            /\ \A j \in 1..Len(out) :
                 i # j => <<out[i].front, out[i].back>> # <<out[j].front, out[j].back>>
            /\ LET c == cards[Nth(kept, i)]
               IN out[i] = [front |-> c[2], back |-> c[3], mode |-> CanonicalModeOf(c[4])]

\* A call whose response repeats a pair, carries an unrecognized mode and has
\* more usable items than asked for, made after a call that returned the
\* same pair: the pair is returned again, once, with the mode of its first
\* occurrence.
C22_Witness ==
  /\ calc.fn = "ai_generate_batch"
  /\ calc.args = <<(<<ItemA2, ItemJunk, ItemA, ItemB>>), 1>>
  /\ calc.out = <<[front |-> "Q1", back |-> "A1", mode |-> BASIC]>>
  /\ calc.prev_out = <<[front |-> "Q1", back |-> "A1", mode |-> CLOZE],
                       [front |-> "Q2", back |-> "A2", mode |-> BASIC]>>

\* The runs that have ended, and the cards all runs have accepted.
Ended(run) == run.pc \in {"done", "failed"}
AllEnded == \A r \in Runs : Ended(runs[r])
TotalAccepted == runs[1].cards_added + runs[2].cards_added

\* C23: within one month and with no reset, the persisted cards_used never
\* decreases and, once all runs have ended, equals its initial value plus
\* the number of cards all runs accepted, also when two runs execute
\* concurrently.
C23_NoLostDebit ==
  [][/\ PersistedUsed' >= PersistedUsed
     /\ AllEnded' => PersistedUsed' = ConcInitialUsed' + TotalAccepted']_vars

\* The cap the last reset persisted.
ResetCap == PatchCap(led.ret["cap"])

\* C24: once reset(newCap) has persisted its record, the persisted cap stays
\* newCap until the next reset, also when a run that started before the
\* reset debits the ledger after it.
C24_CapStaysUntilNextReset ==
  led.op = "reset" => PersistedCap = ResetCap

\* The cards run 1 accepted since the month last changed, and whether it has
\* debited since.
AcceptedSinceChange == runs[1].cards_added - led.accepted
DebitedSinceChange == runs[1].debits > led.debits

\* C25: when the month changes while a run is in progress, the cards the run
\* accepts and debits after the change are counted in the new month's
\* record: after such a debit the persisted cards_used is at least the
\* number of cards accepted since the change.
C25_DebitsCountInNewMonth ==
  /\ led.op = "tick"
  /\ DebitedSinceChange
  /\ ~BetweenAcceptAndDebit(runs[1])
  => PersistedUsed >= AcceptedSinceChange

\* The record a run found at its usage gate is within its cap.
WithinCapAtStart(run) == run.loaded /\ run.start_used <= run.usage["cap"][2]

\* C26: a single run with no concurrent writer and no reset that finds the
\* persisted cards_used at most cap keeps it at most cap: after the gate,
\* after every debit and when the run has ended, the persisted cards_used
\* is at most the persisted cap, which is the cap the run read.
C26_SingleRunStaysWithinCap ==
  WithinCapAtStart(runs[1]) =>
    /\ PersistedCap = runs[1].usage["cap"][2]
    /\ PersistedUsed <= PersistedCap
    /\ PersistedUsed <= runs[1].start_used + runs[1].remaining_cap

\* A run that started with one card used under a cap of 3 and was offered
\* more cards than the cap leaves: it ended after two debits with the
\* persisted cards_used equal to the cap.
C26_Witness ==
  /\ runs[1].pc = "done"
  /\ runs[1].start_used = 1
  /\ runs[1].debits >= 2
  /\ RunTarget(runs[1]) > runs[1].remaining_cap
  /\ PersistedCap = 3
  /\ PersistedUsed = PersistedCap

\* The number of cards a run had accepted when it issued its last
\* card-synthesis call (the call whose debit is pending).
AcceptedBeforeCall(run) == run.cards_added - run.actually_added

\* C27: in both pipelines a card-synthesis call is issued only while the
\* number of accepted cards is strictly below the run's limit (allowed_total
\* in the exhaustive pipeline, target_cards_total in the balanced one),
\* whatever earlier calls returned.
C27_CallsOnlyBelowLimit ==
  \A r \in Runs :
    /\ runs[r].pc = "ex_debit" =>
         AcceptedBeforeCall(runs[r]) < runs[r].allowed_total
    /\ runs[r].pc \in {"bal_debit", "sweep_debit"} =>
         AcceptedBeforeCall(runs[r]) < runs[r].target_cards_total

====
